---- MODULE Spec2Model ----
(***************************************************************************)
(* The launcher run_avantixrpa_gui.pyw: the import of the GUI entry point, *)
(* the __main__ test, the call of main() under `except Exception`, and the *)
(* handler that formats the trace, creates a hidden Tk root, shows the     *)
(* error dialog and destroys the root.                                     *)
(*                                                                         *)
(* Texts are sequences of chunks; a text contains another when the other   *)
(* is a contiguous run of its chunks.  The Japanese literals of the source *)
(* are written in romaji, since the module is ASCII.                       *)
(***************************************************************************)
EXTENDS Integers, Sequences, FiniteSets, TLC

\* Deepest call stack, counted in frames below the launcher's own frame, at
\* which main() raises.  Depth 1 is a raise on main()'s first statement.
MaxDepth == 2

VARIABLES
    pc,          \* the statement the launcher is at
    name,        \* the module's __name__
    handling,    \* the exception being handled (sys.exc_info), or NoException
    err,         \* the local err of the handler; <<>> while unbound
    root,        \* the host window: "none", "normal", "withdrawn", "destroyed"
    dialogs,     \* the calls of messagebox.showerror so far: [title, message, parent]
    propagated,  \* the exception that left the script uncaught, or NoException
    exitStatus,  \* the process's exit status once terminated, -1 before
    mainCalls,   \* how many times main() was called
    mainReturned,\* main() returned normally
    mainRaised,  \* the exception main() raised, or NoException
    tkCreated,   \* how many tk.Tk() calls returned a window
    destroyCalls,\* how many root.destroy() calls were made
    events       \* the steps taken so far, in order

vars == <<pc, name, handling, err, root, dialogs, propagated, exitStatus,
          mainCalls, mainReturned, mainRaised, tkCreated, destroyCalls, events>>

-----------------------------------------------------------------------------
\* Exceptions and the class test of `except Exception`

NoException == [kind |-> "None", msg |-> "", depth |-> 0, origin |-> "none"]

\* The direct base class of each built-in exception class used here.
BaseOf(k) ==
    CASE k = "RuntimeError"      -> "Exception"
      [] k = "ImportError"       -> "Exception"
      [] k = "TclError"          -> "Exception"
      [] k = "Exception"         -> "BaseException"
      [] k = "KeyboardInterrupt" -> "BaseException"
      [] k = "SystemExit"        -> "BaseException"
      [] OTHER                   -> "object"

RECURSIVE IsSubclass(_, _)
IsSubclass(k, c) ==
    IF k = c THEN TRUE
    ELSE IF k = "object" THEN FALSE
    ELSE IsSubclass(BaseOf(k), c)

Messages == {"boom", ""}

\* What main() can raise: any class, with or without a message, at any depth.
MainExceptions ==
    [kind : {"RuntimeError", "ImportError", "TclError", "KeyboardInterrupt", "SystemExit"},
     msg : Messages, depth : 1..MaxDepth, origin : {"main"}]

\* What `from avantixrpa.ui.main_window import main` can raise.
ImportExceptions ==
    [kind : {"ImportError", "RuntimeError"}, msg : {"No module named 'avantixrpa'"},
     depth : {1}, origin : {"import"}]

\* What tk.Tk() can raise: no display, no Tcl.
TkExceptions ==
    [kind : {"TclError"}, msg : {"no display name and no $DISPLAY environment variable"},
     depth : {1}, origin : {"Tk"}]

\* What messagebox.showerror can raise while the dialog is up.
DialogExceptions ==
    [kind : {"TclError", "KeyboardInterrupt"}, msg : {"application has been destroyed"},
     depth : {1}, origin : {"showerror"}]

\* Variant: a bare `except:`, which matches everything.
ExceptMatchesBare(e) == TRUE

\* Variant: `except RuntimeError:`.
ExceptMatchesRuntimeOnly(e) == IsSubclass(e.kind, "RuntimeError")

\* `except Exception:` matches instances of Exception and its subclasses.
ExceptMatches(e) == IsSubclass(e.kind, "Exception")

\* The status the interpreter exits with: 0 at the end of the script, the
\* code of an uncaught SystemExit (a message counts as 1), 130 for an
\* uncaught KeyboardInterrupt, 1 for any other uncaught exception.
ExitStatusOf(e) ==
    IF e = NoException THEN 0
    ELSE IF e.kind = "SystemExit" THEN (IF e.msg = "" THEN 0 ELSE 1)
    ELSE IF e.kind = "KeyboardInterrupt" THEN 130
    ELSE 1

-----------------------------------------------------------------------------
\* traceback.format_exc() and the dialog's texts

LauncherFrame == "  File \"run_avantixrpa_gui.pyw\", line 8, in <module>\n"

RECURSIVE Frames(_)
Frames(d) ==
    IF d = 0 THEN <<>>
    ELSE Frames(d - 1) \o <<"  File \"avantixrpa/ui/main_window.py\", in frame\n">>

format_exception_only(e) ==
    IF e.msg = "" THEN <<e.kind, "\n">> ELSE <<e.kind, ": ", e.msg, "\n">>

format_exc(e) ==
    IF e = NoException THEN <<"NoneType: None\n">>
    ELSE <<"Traceback (most recent call last):\n", LauncherFrame>>
         \o Frames(e.depth) \o format_exception_only(e)

\* "AVANTIXRPA 起動エラー"
Title == "AVANTIXRPA kidou error"

LogPath == "logs/avantixrpa.log"

\* "AVANTIXRPA の起動中にエラーが発生しました。\n"
\* "詳しくは logs/avantixrpa.log を確認してください。\n\n"
FixedMessage ==
    <<"AVANTIXRPA no kidouchuu ni error ga hassei shimashita.\n",
      "kuwashiku wa ", LogPath, " wo kakunin shite kudasai.\n\n">>

ErrorMessage(e) == FixedMessage \o e

-----------------------------------------------------------------------------
Init ==
    /\ pc = "L1"
    /\ name \in {"__main__", "run_avantixrpa_gui"}
    /\ handling = NoException
    /\ err = <<>>
    /\ root = "none"
    /\ dialogs = <<>>
    /\ propagated = NoException
    /\ exitStatus = -1
    /\ mainCalls = 0
    /\ mainReturned = FALSE
    /\ mainRaised = NoException
    /\ tkCreated = 0
    /\ destroyCalls = 0
    /\ events = <<>>

\* An exception nothing catches: the script ends with it.
Propagate(e, ev) ==
    /\ pc' = "terminated"
    /\ propagated' = e
    /\ exitStatus' = ExitStatusOf(e)
    /\ events' = events \o <<ev, "terminate">>

\* The script runs off its end.
Finish(ev) ==
    /\ pc' = "terminated"
    /\ exitStatus' = ExitStatusOf(NoException)
    /\ events' = events \o <<ev, "terminate">>

\* Line 1 imports main.
ImportMainOk ==
    /\ pc = "L1"
    /\ pc' = "L2"
    /\ events' = Append(events, "import")
    /\ UNCHANGED <<name, handling, err, root, dialogs, propagated, exitStatus,
                   mainCalls, mainReturned, mainRaised, tkCreated, destroyCalls>>

\* Variant: the import placed inside the try, its failure handled.
ImportMainCaught ==
    /\ pc = "L1"
    /\ \E e \in ImportExceptions :
         /\ handling' = e
         /\ pc' = "L11"
         /\ events' = Append(events, "import_raised")
    /\ UNCHANGED <<name, err, root, dialogs, propagated, exitStatus, mainCalls,
                   mainReturned, mainRaised, tkCreated, destroyCalls>>

\* Line 1 raises: it stands outside the try.
ImportMainRaises ==
    /\ pc = "L1"
    /\ \E e \in ImportExceptions : Propagate(e, "import_raised")
    /\ UNCHANGED <<name, handling, err, root, dialogs, mainCalls, mainReturned,
                   mainRaised, tkCreated, destroyCalls>>

\* Lines 2-4 import traceback, tkinter and messagebox.
ImportStdlib ==
    /\ pc = "L2"
    /\ pc' = "L6"
    /\ UNCHANGED <<name, handling, err, root, dialogs, propagated, exitStatus,
                   mainCalls, mainReturned, mainRaised, tkCreated, destroyCalls,
                   events>>

\* Line 6: the guard runs only when the file is the program.
NameCheck ==
    /\ pc = "L6"
    /\ IF name = "__main__"
       THEN /\ pc' = "L8"
            /\ events' = Append(events, "try")
            /\ UNCHANGED exitStatus
       ELSE Finish("not_main")
    /\ UNCHANGED <<name, handling, err, root, dialogs, propagated, mainCalls,
                   mainReturned, mainRaised, tkCreated, destroyCalls>>

\* Line 8 calls main(), which runs until it returns or raises.
CallMain ==
    /\ pc = "L8"
    /\ pc' = "in_main"
    /\ mainCalls' = mainCalls + 1
    /\ events' = Append(events, "call_main")
    /\ UNCHANGED <<name, handling, err, root, dialogs, propagated, exitStatus,
                   mainReturned, mainRaised, tkCreated, destroyCalls>>

\* Variant: the handler's body run after a normal return too (a finally).
MainReturnsIntoHandler ==
    /\ pc = "in_main"
    /\ mainReturned' = TRUE
    /\ pc' = "L11"
    /\ events' = Append(events, "main_returned")
    /\ UNCHANGED <<name, handling, err, root, dialogs, propagated, exitStatus,
                   mainCalls, mainRaised, tkCreated, destroyCalls>>

\* main() returns: the try statement is over, and so is the script.
MainReturns ==
    /\ pc = "in_main"
    /\ mainReturned' = TRUE
    /\ Finish("main_returned")
    /\ UNCHANGED <<name, handling, err, root, dialogs, propagated, mainCalls,
                   mainRaised, tkCreated, destroyCalls>>

\* main() raises: line 9 catches it if it is an Exception, else it propagates.
MainRaises ==
    /\ pc = "in_main"
    /\ \E e \in MainExceptions :
         /\ mainRaised' = e
         /\ IF ExceptMatches(e)
            THEN /\ handling' = e
                 /\ pc' = "L11"
                 /\ events' = Append(events, "main_raised")
                 /\ UNCHANGED <<propagated, exitStatus>>
            ELSE /\ Propagate(e, "main_raised")
                 /\ UNCHANGED handling
    /\ UNCHANGED <<name, err, root, dialogs, mainCalls, mainReturned, tkCreated,
                   destroyCalls>>

\* Line 11: err = traceback.format_exc()
FormatExc ==
    /\ pc = "L11"
    /\ err' = format_exc(handling)
    /\ pc' = "L12"
    /\ events' = Append(events, "format_exc")
    /\ UNCHANGED <<name, handling, root, dialogs, propagated, exitStatus,
                   mainCalls, mainReturned, mainRaised, tkCreated, destroyCalls>>

\* Variant: line 13 left out, the root stays on screen.
CreateRootUnhidden ==
    /\ pc = "L12"
    /\ root' = "normal"
    /\ tkCreated' = tkCreated + 1
    /\ pc' = "L14"
    /\ events' = Append(events, "Tk")
    /\ UNCHANGED <<name, handling, err, dialogs, propagated, exitStatus,
                   mainCalls, mainReturned, mainRaised, destroyCalls>>

\* Line 12: root = tk.Tk()
CreateRoot ==
    /\ pc = "L12"
    /\ root' = "normal"
    /\ tkCreated' = tkCreated + 1
    /\ pc' = "L13"
    /\ events' = Append(events, "Tk")
    /\ UNCHANGED <<name, handling, err, dialogs, propagated, exitStatus,
                   mainCalls, mainReturned, mainRaised, destroyCalls>>

\* Line 12 raises inside the handler: nothing catches it.
CreateRootRaises ==
    /\ pc = "L12"
    /\ \E e \in TkExceptions : Propagate(e, "Tk_raised")
    /\ UNCHANGED <<name, handling, err, root, dialogs, mainCalls, mainReturned,
                   mainRaised, tkCreated, destroyCalls>>

\* Line 13: root.withdraw()
Withdraw ==
    /\ pc = "L13"
    /\ root' = "withdrawn"
    /\ pc' = "L14"
    /\ events' = Append(events, "withdraw")
    /\ UNCHANGED <<name, handling, err, dialogs, propagated, exitStatus,
                   mainCalls, mainReturned, mainRaised, tkCreated, destroyCalls>>

\* Variant: the message without f"{err}".
ShowErrorWithoutTrace ==
    /\ pc = "L14"
    /\ dialogs' = Append(dialogs, [title |-> Title, message |-> FixedMessage,
                                   parent |-> root])
    /\ pc' = "dialog"
    /\ events' = Append(events, "showerror")
    /\ UNCHANGED <<name, handling, err, root, propagated, exitStatus, mainCalls,
                   mainReturned, mainRaised, tkCreated, destroyCalls>>

\* Lines 14-19: messagebox.showerror(title, message) opens the modal dialog.
ShowError ==
    /\ pc = "L14"
    /\ dialogs' = Append(dialogs, [title |-> Title, message |-> ErrorMessage(err),
                                   parent |-> root])
    /\ pc' = "dialog"
    /\ events' = Append(events, "showerror")
    /\ UNCHANGED <<name, handling, err, root, propagated, exitStatus, mainCalls,
                   mainReturned, mainRaised, tkCreated, destroyCalls>>

\* Variant: the script ends when the dialog returns, line 20 left out.
DialogReturnsSkipsDestroy ==
    /\ pc = "dialog"
    /\ Finish("showerror_returned")
    /\ UNCHANGED <<name, handling, err, root, dialogs, propagated, mainCalls,
                   mainReturned, mainRaised, tkCreated, destroyCalls>>

\* The user dismisses the dialog: showerror returns, its value is dropped.
DialogReturns ==
    /\ pc = "dialog"
    /\ pc' = "L20"
    /\ events' = Append(events, "showerror_returned")
    /\ UNCHANGED <<name, handling, err, root, dialogs, propagated, exitStatus,
                   mainCalls, mainReturned, mainRaised, tkCreated, destroyCalls>>

\* showerror raises: line 20 is skipped, no finally destroys the root.
DialogRaises ==
    /\ pc = "dialog"
    /\ \E e \in DialogExceptions : Propagate(e, "showerror_raised")
    /\ UNCHANGED <<name, handling, err, root, dialogs, mainCalls, mainReturned,
                   mainRaised, tkCreated, destroyCalls>>

\* Variant: line 20 reached but the window not destroyed.
DestroySkipped ==
    /\ pc = "L20"
    /\ Finish("destroy")
    /\ UNCHANGED <<name, handling, err, root, dialogs, propagated, mainCalls,
                   mainReturned, mainRaised, tkCreated, destroyCalls>>

\* Variant: a `raise` after line 20.
DestroyThenReraise ==
    /\ pc = "L20"
    /\ root' = "destroyed"
    /\ destroyCalls' = destroyCalls + 1
    /\ Propagate(handling, "destroy")
    /\ UNCHANGED <<name, handling, err, dialogs, mainCalls, mainReturned,
                   mainRaised, tkCreated>>

\* Variant: sys.exit(1) after line 20.
DestroyThenExitOne ==
    /\ pc = "L20"
    /\ root' = "destroyed"
    /\ destroyCalls' = destroyCalls + 1
    /\ pc' = "terminated"
    /\ exitStatus' = 1
    /\ events' = events \o <<"destroy", "terminate">>
    /\ UNCHANGED <<name, handling, err, dialogs, propagated, mainCalls,
                   mainReturned, mainRaised, tkCreated>>

\* Line 20: root.destroy(); the handler ends and so does the script.
Destroy ==
    /\ pc = "L20"
    /\ root' = "destroyed"
    /\ destroyCalls' = destroyCalls + 1
    /\ Finish("destroy")
    /\ UNCHANGED <<name, handling, err, dialogs, propagated, mainCalls,
                   mainReturned, mainRaised, tkCreated>>

Next ==
    \/ ImportMainOk
    \/ ImportMainRaises
    \/ ImportStdlib
    \/ NameCheck
    \/ CallMain
    \/ MainReturns
    \/ MainRaises
    \/ FormatExc
    \/ CreateRoot
    \/ CreateRootRaises
    \/ Withdraw
    \/ ShowError
    \/ DialogReturns
    \/ DialogRaises
    \/ Destroy

Spec == Init /\ [][Next]_vars

\* One thread runs the script statement after statement; main() returns or
\* raises and the dialog is dismissed, as the termination claim supposes.
FairSpec == Spec /\ WF_vars(Next)

-----------------------------------------------------------------------------
\* Vocabulary of the properties

Terminated == pc = "terminated"

Has(ev) == \E i \in 1..Len(events) : events[i] = ev

IsPrefix(s, t) == Len(s) <= Len(t) /\ SubSeq(t, 1, Len(s)) = s

Contains(text, sub) ==
    \E i \in 0..(Len(text) - Len(sub)) : SubSeq(text, i + 1, i + Len(sub)) = sub

MainFailed == mainRaised # NoException

MainRaisedException == MainFailed /\ IsSubclass(mainRaised.kind, "Exception")

UpToRaise == <<"import", "try", "call_main", "main_raised">>

FailureRun ==
    UpToRaise \o <<"format_exc", "Tk", "withdraw", "showerror",
                   "showerror_returned", "destroy", "terminate">>

-----------------------------------------------------------------------------
\* C1 as stated: whatever main() raises, the finished run has made exactly
\* one showerror call and no exception has left the guard.
C1_AnyExceptionOneDialogNoPropagation ==
    (Terminated /\ MainFailed) => (Len(dialogs) = 1 /\ propagated = NoException)

\* C1 amended: showerror is called at most once in any run.  When main()
\* raises an instance of Exception, the exception is caught and the run ends
\* in one of three ways: tk.Tk() raised (no dialog, the TclError propagates),
\* showerror raised (one call, its exception propagates), or both returned
\* (exactly one call, nothing propagates).  When main() raises outside
\* Exception (KeyboardInterrupt, SystemExit) there is no call and the
\* exception propagates.
C1_OneDialogWhenHandlerCallsReturn ==
    /\ Len(dialogs) <= 1
    /\ MainRaisedException => (handling = mainRaised /\ propagated # mainRaised)
    /\ (Terminated /\ MainRaisedException) =>
         \/ Has("Tk_raised") /\ Len(dialogs) = 0 /\ propagated.origin = "Tk"
         \/ Has("showerror_raised") /\ Len(dialogs) = 1
              /\ propagated.origin = "showerror"
         \/ Has("Tk") /\ Has("showerror_returned") /\ Len(dialogs) = 1
              /\ propagated = NoException
    /\ (MainFailed /\ ~MainRaisedException) =>
         (Terminated /\ Len(dialogs) = 0 /\ propagated = mainRaised)

C1_Witness ==
    /\ Terminated
    /\ mainRaised.kind = "TclError"
    /\ Len(dialogs) = 1
    /\ propagated = NoException

\* C2 as stated: whatever kind of failure main() raises, it is caught and the
\* failure path is taken.
C2_EveryKindCaught ==
    MainFailed => (handling = mainRaised /\ propagated # mainRaised)

\* C2 amended: the guard catches exactly the instances of Exception, without
\* telling their kinds apart: each is caught, its trace is captured and the
\* handler goes on to the window and the dialog.  A failure outside Exception
\* (KeyboardInterrupt, SystemExit) is not caught: it propagates at once, with
\* no trace captured, no window and no dialog.
C2_CatchesExactlyException ==
    MainFailed =>
      IF IsSubclass(mainRaised.kind, "Exception")
      THEN /\ handling = mainRaised
           /\ propagated # mainRaised
           /\ pc # "L11" => (Has("format_exc") /\ err = format_exc(mainRaised))
           /\ Terminated => (Has("Tk") \/ Has("Tk_raised"))
      ELSE /\ handling = NoException
           /\ Terminated
           /\ propagated = mainRaised
           /\ err = <<>>
           /\ root = "none"
           /\ dialogs = <<>>

C2_Witness ==
    /\ mainRaised.kind = "ImportError"
    /\ handling = mainRaised
    /\ Len(dialogs) = 1
    /\ Terminated

\* C3 as stated: a failure during startup, be it while importing the entry
\* point or while running it, ends with the error dialog shown and nothing
\* propagated.
C3_ImportFailureShowsDialog ==
    (Terminated /\ (Has("import_raised") \/ MainFailed)) =>
      (Len(dialogs) = 1 /\ propagated = NoException)

\* C3 amended: an instance of Exception raised while main() runs leads to
\* the error dialog being invoked whenever tk.Tk() returns a window.  A
\* failure while importing the entry point (line 1, outside the try) is not
\* guarded: main() is never called, no window and no dialog are made, and
\* the exception propagates uncaught.
C3_ImportFailureUnguarded ==
    /\ Has("import_raised") =>
         /\ Terminated
         /\ propagated.origin = "import"
         /\ handling = NoException
         /\ mainCalls = 0
         /\ root = "none"
         /\ dialogs = <<>>
    /\ (Terminated /\ MainRaisedException /\ ~Has("Tk_raised")) => Len(dialogs) = 1

C3_Witness ==
    /\ Terminated
    /\ propagated.kind = "ImportError"
    /\ propagated.origin = "import"
    /\ dialogs = <<>>

\* C4 as stated: the failure path creates exactly one window and destroys
\* it exactly once, the success path creates none, and no terminal state has
\* a live host window.
C4_WindowDestroyedExactlyOnce ==
    /\ (Terminated /\ handling # NoException) => (tkCreated = 1 /\ destroyCalls = 1)
    /\ mainReturned => tkCreated = 0
    /\ Terminated => root \in {"none", "destroyed"}

\* C4 amended: at most one window is created and it is destroyed at most
\* once; the success path creates none.  On the failure path, when tk.Tk()
\* and showerror both return, exactly one window is created and exactly one
\* destroy happens (also for a raise on main()'s first statement); when
\* tk.Tk() raises no window exists; when showerror raises the one window is
\* never destroyed, and that is the only terminal state with a live window.
C4_WindowDestroyedOnceIfDialogReturns ==
    /\ tkCreated <= 1
    /\ destroyCalls <= tkCreated
    /\ mainReturned => (tkCreated = 0 /\ destroyCalls = 0 /\ root = "none")
    /\ (Terminated /\ handling # NoException) =>
         IF Has("Tk_raised")
         THEN tkCreated = 0 /\ destroyCalls = 0 /\ root = "none"
         ELSE IF Has("showerror_raised")
         THEN tkCreated = 1 /\ destroyCalls = 0 /\ root = "withdrawn"
         ELSE tkCreated = 1 /\ destroyCalls = 1 /\ root = "destroyed"
    /\ (Terminated /\ root \notin {"none", "destroyed"}) => Has("showerror_raised")

C4_Witness ==
    /\ Terminated
    /\ mainRaised.depth = 1
    /\ tkCreated = 1
    /\ destroyCalls = 1
    /\ root = "destroyed"

\* C5 as stated: once the window is created the launcher never ends with it
\* still existing, also when the dialog call fails.
C5_NoLiveWindowAtEnd ==
    (Terminated /\ tkCreated > 0) => root = "destroyed"

\* C5 amended: when the dialog call returns normally, destroy is the very
\* next step and the launcher ends with the window destroyed.  When the
\* dialog call raises, destroy is never called: the launcher ends with the
\* window still existing, and this is the only way it does.
C5_DestroyedIffDialogReturns ==
    /\ \A i \in 1..Len(events) :
         events[i] = "showerror_returned" =>
           /\ i = Len(events) => (pc = "L20" /\ root = "withdrawn")
           /\ i < Len(events) => events[i + 1] = "destroy"
    /\ Has("destroy") => root = "destroyed"
    /\ Has("showerror_raised") =>
         (Terminated /\ root = "withdrawn" /\ destroyCalls = 0)
    /\ (Terminated /\ tkCreated > 0 /\ root # "destroyed") => Has("showerror_raised")

C5_Witness ==
    /\ Terminated
    /\ Has("showerror_raised")
    /\ root = "withdrawn"
    /\ tkCreated = 1

\* C6: when main() returns normally the launcher is over at once: no trace
\* captured, no window created, no dialog shown, no destroy called, nothing
\* propagated, exit status 0.
C6_NormalReturnDoesNothing ==
    mainReturned =>
      /\ Terminated
      /\ events = <<"import", "try", "call_main", "main_returned", "terminate">>
      /\ handling = NoException
      /\ err = <<>>
      /\ tkCreated = 0
      /\ root = "none"
      /\ dialogs = <<>>
      /\ destroyCalls = 0
      /\ propagated = NoException
      /\ exitStatus = 0

C6_Witness == mainReturned /\ Terminated /\ mainCalls = 1

\* C7: every dialog shown has a body that is the fixed message followed by
\* the whole trace of the exception main() raised: it contains
\* "logs/avantixrpa.log", the traceback header, the launcher's frame, the
\* exception's class and its message ("boom" for RuntimeError("boom")).
C7_BodyHasLogPathAndTrace ==
    \A i \in 1..Len(dialogs) :
      LET m == dialogs[i].message
          t == format_exc(mainRaised)
      IN /\ MainFailed
         /\ Contains(m, <<"logs/avantixrpa.log">>)
         /\ Contains(m, t)
         /\ m = FixedMessage \o t
         /\ Len(t) >= 3 + mainRaised.depth
         /\ Contains(m, <<"Traceback (most recent call last):\n", LauncherFrame>>)
         /\ Contains(m, <<mainRaised.kind>>)
         /\ mainRaised.msg # "" => Contains(m, <<mainRaised.kind, ": ", mainRaised.msg, "\n">>)
         /\ (mainRaised.kind = "RuntimeError" /\ mainRaised.msg = "boom") =>
              (Contains(m, <<"boom">>) /\ Contains(m, <<"logs/avantixrpa.log">>))

C7_Witness ==
    /\ Len(dialogs) = 1
    /\ mainRaised.kind = "RuntimeError"
    /\ mainRaised.msg = "boom"
    /\ Contains(dialogs[1].message, <<"boom">>)

C9_TerminatesWithStatusZero ==
    /\ <>Terminated
    /\ []((Terminated /\ Has("showerror_returned")) =>
            (exitStatus = 0 /\ propagated = NoException))
    /\ []((Terminated /\ mainReturned) => exitStatus = 0)

C9_Witness ==
    /\ Terminated
    /\ Has("showerror_returned")
    /\ exitStatus = 0
    /\ MainFailed

\* C10 as stated: every failure path ends having done, in order and each
\* exactly once: capture the trace, create the window, hide it, show the
\* dialog, destroy the window, terminate.
C10_AllStepsOnEveryFailurePath ==
    (Terminated /\ handling # NoException) => events = FailureRun

\* C10 amended: on the failure path the steps that happen, happen in that
\* order and each at most once; all of them happen, each exactly once, when
\* tk.Tk() and showerror return normally, and otherwise the run stops at the
\* call that raised.  The dialog's parent window exists and is hidden when
\* the dialog is shown, the window is destroyed only after the dialog call
\* returned, and the trace is captured before the window is created.
C10_StepsInOrder ==
    /\ handling # NoException =>
         \/ IsPrefix(events, FailureRun)
         \/ events = UpToRaise \o <<"format_exc", "Tk_raised", "terminate">>
         \/ events = UpToRaise \o <<"format_exc", "Tk", "withdraw", "showerror",
                                    "showerror_raised", "terminate">>
    /\ (Terminated /\ Has("showerror_returned")) => events = FailureRun
    /\ \A i \in 1..Len(dialogs) : dialogs[i].parent = "withdrawn"
    /\ root = "destroyed" => Has("showerror_returned")
    /\ root # "none" => (Has("format_exc") /\ err # <<>>)

C10_Witness == Terminated /\ events = FailureRun

====
